---- MODULE Spec2Model ----
(***************************************************************************)
(* Admission control and token lifecycle of the intuit-demo backend.       *)
(*                                                                         *)
(*   PlayersService/main.py : check_throttle, check_rate_limit (Redis),    *)
(*                            throttle_middleware, rate_limit_middleware   *)
(*   Common/in_jwt_auth.py  : authenticate_user, get_current_user,         *)
(*                            get_current_active_user                      *)
(*   PlayersService/Utils/limiter_strategies.py : TokenBucket,             *)
(*                            LeakyBucket, FixedWindow                     *)
(*                                                                         *)
(* Time is a whole number of seconds for the Redis gates and the limiter   *)
(* classes, and a whole number of lifetime units for the tokens.  Every    *)
(* store round trip is a step of its own, so concurrent handlers           *)
(* interleave between their GET and their SET / pipeline.                  *)
(***************************************************************************)
EXTENDS Integers, Sequences, FiniteSets, TLC

VARIABLES
    now,        \* the clock: datetime.now(timezone.utc)
    thrStore,   \* Redis value of "throttle:{ip}", with its expiry
    thrPc,      \* per worker: position inside check_throttle
    thrLoc,     \* per worker: locals of check_throttle between GET and SET
    thrLast,    \* the last completed check_throttle call (observation)
    thrWin,     \* admitted calls per written window (observation)
    rateStore,  \* Redis value of "rate_limit:{ip}", with its expiry
    ratePc,     \* per worker: position inside check_rate_limit
    rateLoc,    \* per worker: locals of check_rate_limit
    rateLast,   \* the last completed check_rate_limit call (observation)
    minted,     \* every token jwt.encode has produced so far
    pairs,      \* <<access, refresh>> pairs returned by authenticate_user
    rotated,    \* <<refresh, access>>: access minted from refresh by rotation
    authLast,   \* the last completed auth call (observation)
    mw,         \* per worker: the request inside the middleware stack
    tb,         \* a TokenBucket instance
    tbLast,     \* the last TokenBucket.allow_request call (observation)
    fw,         \* a FixedWindow instance
    fwLast,     \* the last FixedWindow.allow_request call (observation)
    lb,         \* a LeakyBucket instance
    lbLast      \* the last LeakyBucket.allow_request call (observation)

vars == <<now, thrStore, thrPc, thrLoc, thrLast, thrWin,
          rateStore, ratePc, rateLoc, rateLast,
          minted, pairs, rotated, authLast, mw,
          tb, tbLast, fw, fwLast, lb, lbLast>>

thrVars  == <<thrStore, thrPc, thrLoc, thrLast, thrWin>>
rateVars == <<rateStore, ratePc, rateLoc, rateLast>>
authVars == <<minted, pairs, rotated, authLast>>
mwVars   == <<mw>>
limVars  == <<tb, tbLast, fw, fwLast, lb, lbLast>>

----------------------------------------------------------------------------
(* Program constants, PlayersService/main.py:19-24 *)
RATE_LIMIT      == 5
RATE_PERIOD     == 60
THROTTLE_LIMIT  == 5
THROTTLE_PERIOD == 60
COOLDOWN_PERIOD == 30

(* Bounds of the model *)
ThrMaxTime  == 63     \* horizon of the throttle clock, seconds
ThrMaxLag   == 1      \* longest GET-to-SET latency of one call, seconds
RateMaxTime == 80     \* horizon of the rate-limit clock, seconds

Workers == {"w1", "w2"}   \* request handlers in flight for one client ip

----------------------------------------------------------------------------
(* The Redis store: a key holds a value until its expiry passes. *)

NoRec == [present |-> FALSE, count |-> 0, reset |-> 0, expireAt |-> 0]

\* redis.get(key): None once the key's time-to-live has run out
RedisGet(rec, t) ==
    IF rec.present /\ t < rec.expireAt THEN rec ELSE NoRec

\* timedelta.seconds: the seconds field of the normalised timedelta, which
\* for a negative difference is the remainder modulo one day
TimedeltaSeconds(d) == d % 86400

Max(a, b) == IF a >= b THEN a ELSE b

----------------------------------------------------------------------------
(* check_throttle, PlayersService/main.py:96-138 *)

\* Line 108: `datetime` is the module bound by `import datetime` (line 2),
\* which has no attribute strptime, so parsing a stored record raises
\* AttributeError before any comparison is made.
StrptimeRaises == TRUE

\* Lines 103-136: everything between the GET and the SET.  The result says
\* whether the call raises, returns (False, remaining) or goes on to SET.
ThrottleDecide(current, current_time) ==
    IF current.present
    THEN IF StrptimeRaises
         THEN [kind |-> "raise", count |-> 0, reset |-> 0, ex |-> 0,
               remaining |-> 0]
         ELSE IF current_time < current.reset
              THEN [kind |-> "reject", count |-> 0, reset |-> 0, ex |-> 0,
                    remaining |-> current.reset - current_time]
              ELSE LET c0 == 0 + 1
                       cool == c0 > THROTTLE_LIMIT
                       rt == IF cool THEN current_time + COOLDOWN_PERIOD
                                     ELSE current.reset
                       c1 == IF cool THEN 0 ELSE c0
                   IN  [kind |-> "set", count |-> c1, reset |-> rt,
                        ex |-> Max(TimedeltaSeconds(rt - current_time), 1),
                        remaining |-> 0]
    ELSE LET c0 == 0 + 1
             cool == c0 > THROTTLE_LIMIT
             rt == IF cool THEN current_time + COOLDOWN_PERIOD
                           ELSE current_time + THROTTLE_PERIOD
             c1 == IF cool THEN 0 ELSE c0
         IN  [kind |-> "set", count |-> c1, reset |-> rt,
              ex |-> Max(TimedeltaSeconds(rt - current_time), 1),
              remaining |-> 0]

ThrIdleLoc == [current |-> NoRec, current_time |-> 0, count |-> 0,
               reset |-> 0, ex |-> 0]

ThrNone == [outcome |-> "none", hadRecord |-> FALSE, before |-> NoRec,
            t |-> 0, remaining |-> 0, atSet |-> NoRec, after |-> NoRec,
            n |-> 0, first |-> 0]

\* Position of a call among the calls made since the key had no record
\* (counted up to THROTTLE_LIMIT + 2), and the time of the first of them
CallNo(current) ==
    IF current.present
    THEN (IF thrLast.n <= THROTTLE_LIMIT + 1 THEN thrLast.n + 1 ELSE thrLast.n)
    ELSE 1
FirstAt(current, t) == IF current.present THEN thrLast.first ELSE t

\* Lines 100-112 for a call that ends without writing: the stored record is
\* parsed, which raises (or, were it to parse, the call is rejected).
ThrottleGetStop(w) ==
    /\ thrPc[w] = "idle"
    /\ LET current == RedisGet(thrStore, now)
           d == ThrottleDecide(current, now)
       IN  /\ d.kind # "set"
           /\ thrLast' = [outcome |-> IF d.kind = "raise" THEN "raised"
                                                          ELSE "rejected",
                          hadRecord |-> current.present, before |-> current,
                          t |-> now, remaining |-> d.remaining,
                          atSet |-> thrStore, after |-> thrStore,
                          n |-> CallNo(current),
                          first |-> FirstAt(current, now)]
    /\ UNCHANGED <<now, thrStore, thrPc, thrLoc, thrWin>>
    /\ UNCHANGED rateVars /\ UNCHANGED authVars
    /\ UNCHANGED limVars

\* Lines 100-129 for a call that goes on to write: GET, take the time,
\* compute the new count and reset time.
ThrottleGet(w) ==
    /\ thrPc[w] = "idle"
    /\ LET current == RedisGet(thrStore, now)
           d == ThrottleDecide(current, now)
       IN  /\ d.kind = "set"
           /\ thrLoc' = [thrLoc EXCEPT ![w] =
                 [current |-> current, current_time |-> now,
                  count |-> d.count, reset |-> d.reset, ex |-> d.ex]]
    /\ thrPc' = [thrPc EXCEPT ![w] = "set"]
    /\ UNCHANGED <<now, thrStore, thrLast, thrWin>>
    /\ UNCHANGED rateVars /\ UNCHANGED authVars
    /\ UNCHANGED limVars

\* Lines 132-138: SET key "{count}:{reset_time}" EX ex, return (True, None)
ThrottleSet(w) ==
    /\ thrPc[w] = "set"
    /\ LET l == thrLoc[w]
           written == [present |-> TRUE, count |-> l.count,
                       reset |-> l.reset, expireAt |-> now + l.ex]
       IN  /\ thrStore' = written
           /\ thrLast' = [outcome |-> "allowed",
                          hadRecord |-> l.current.present,
                          before |-> l.current, t |-> l.current_time,
                          remaining |-> 0,
                          atSet |-> RedisGet(thrStore, now),
                          after |-> written,
                          n |-> CallNo(l.current),
                          first |-> FirstAt(l.current, l.current_time)]
           /\ thrWin' = IF thrWin.reset = l.reset
                        THEN [thrWin EXCEPT !.admitted = @ + 1]
                        ELSE [reset |-> l.reset, admitted |-> 1]
    /\ thrPc' = [thrPc EXCEPT ![w] = "idle"]
    /\ thrLoc' = [thrLoc EXCEPT ![w] = ThrIdleLoc]
    /\ UNCHANGED now
    /\ UNCHANGED rateVars /\ UNCHANGED authVars
    /\ UNCHANGED limVars

\* The clock advances; a call in flight completes within ThrMaxLag seconds.
ThrottleTick ==
    /\ now < ThrMaxTime
    /\ \A w \in Workers : thrPc[w] = "set" =>
                             now + 1 - thrLoc[w].current_time <= ThrMaxLag
    /\ now' = now + 1
    /\ UNCHANGED thrVars /\ UNCHANGED rateVars /\ UNCHANGED authVars
    /\ UNCHANGED limVars
    /\ UNCHANGED mwVars

\* The client stays away for a whole throttle period.
ThrottleWait ==
    /\ now + THROTTLE_PERIOD - 1 <= ThrMaxTime
    /\ \A w \in Workers : thrPc[w] = "idle"
    /\ now' = now + THROTTLE_PERIOD - 1
    /\ UNCHANGED thrVars /\ UNCHANGED rateVars /\ UNCHANGED authVars
    /\ UNCHANGED limVars
    /\ UNCHANGED mwVars

----------------------------------------------------------------------------
(* check_rate_limit, PlayersService/main.py:65-80 *)

NoCounter == [present |-> FALSE, value |-> 0, expireAt |-> 0]

RateGetKey(rec, t) ==
    IF rec.present /\ t < rec.expireAt THEN rec ELSE NoCounter

\* Line 71: `current and int(current) >= RATE_LIMIT`
RateExceeded(current) == current.present /\ current.value >= RATE_LIMIT

\* Lines 75-78: the pipeline runs INCR then EXPIRE as one transaction, so
\* every admitted request sets the key's time-to-live to RATE_PERIOD again.
PipelineIncrExpire(rec, t) ==
    [present |-> TRUE,
     value |-> (IF rec.present THEN rec.value ELSE 0) + 1,
     expireAt |-> t + RATE_PERIOD]

RateIdleLoc == [current |-> NoCounter, t |-> 0, alone |-> TRUE]

RateNone == [outcome |-> "none", read |-> NoCounter, before |-> NoCounter,
             after |-> NoCounter, t |-> 0, alone |-> TRUE]

\* Lines 69-72: GET, counter already at the limit, return False
RateGetReject(w) ==
    /\ ratePc[w] = "idle"
    /\ LET current == RateGetKey(rateStore, now)
       IN  /\ RateExceeded(current)
           /\ rateLast' = [outcome |-> "rejected", read |-> current,
                           before |-> current,
                           after |-> RateGetKey(rateStore, now),
                           t |-> now,
                           alone |-> \A v \in Workers : ratePc[v] = "idle"]
    /\ UNCHANGED <<now, rateStore, ratePc, rateLoc>>
    /\ UNCHANGED thrVars /\ UNCHANGED authVars
    /\ UNCHANGED limVars

\* Lines 69-75: GET, counter below the limit, go on to the pipeline
RateGet(w) ==
    /\ ratePc[w] = "idle"
    /\ LET current == RateGetKey(rateStore, now)
           others == \E v \in Workers \ {w} : ratePc[v] # "idle"
       IN  /\ ~RateExceeded(current)
           /\ rateLoc' = [v \in Workers |->
                 IF v = w THEN [current |-> current, t |-> now,
                                alone |-> ~others]
                 ELSE IF ratePc[v] # "idle"
                      THEN [rateLoc[v] EXCEPT !.alone = FALSE]
                      ELSE rateLoc[v]]
    /\ ratePc' = [ratePc EXCEPT ![w] = "incr"]
    /\ UNCHANGED <<now, rateStore, rateLast>>
    /\ UNCHANGED thrVars /\ UNCHANGED authVars
    /\ UNCHANGED limVars

\* Lines 76-80: pipeline.execute(), return True
RateIncr(w) ==
    /\ ratePc[w] = "incr"
    /\ LET before == RateGetKey(rateStore, now)
           after == PipelineIncrExpire(before, now)
       IN  /\ rateStore' = after
           /\ rateLast' = [outcome |-> "allowed", read |-> rateLoc[w].current,
                           before |-> before, after |-> after,
                           t |-> now, alone |-> rateLoc[w].alone]
    /\ ratePc' = [ratePc EXCEPT ![w] = "idle"]
    /\ rateLoc' = [rateLoc EXCEPT ![w] = RateIdleLoc]
    /\ UNCHANGED now
    /\ UNCHANGED thrVars /\ UNCHANGED authVars
    /\ UNCHANGED limVars

\* The clock advances by a third of the rate period; a call in flight
\* completes before the clock advances a second time.
RateTick ==
    /\ now + RATE_PERIOD \div 3 <= RateMaxTime
    /\ \A w \in Workers : ratePc[w] = "incr" => rateLoc[w].t = now
    /\ now' = now + RATE_PERIOD \div 3
    /\ UNCHANGED thrVars /\ UNCHANGED rateVars /\ UNCHANGED authVars
    /\ UNCHANGED limVars
    /\ UNCHANGED mwVars

----------------------------------------------------------------------------
(* Token lifecycle, Common/in_jwt_auth.py *)

\* Lifetimes set in Common/in_config.py (not part of the sources at hand):
\* the access token is short-lived, the refresh token outlives it.
AccessLifetime  == 1    \* timedelta(minutes=ACCESS_TOKEN_EXPIRE_MINUTES)
RefreshLifetime == 3    \* timedelta(days=REFRESH_TOKEN_EXPIRE_DAYS)
\* The per-token ceiling that line 167 compares req_count against; the name
\* RATE_LIMIT is not bound in in_jwt_auth.py itself, so the ceiling is taken
\* to be configuration like the two lifetimes.
TokenRateLimit  == 5

(* Bounds of the model *)
AuthMaxTime == 4     \* horizon of the token clock, lifetime units
MaxLogins   == 1     \* successful authenticate_user calls
MaxTokens   == 3     \* tokens minted in one behaviour

\* The user table (Common/in_models.py, not part of the sources at hand):
\* primary key -> row.  Row 3 carries a numeric username that is nobody's
\* primary key; row 2 a username that is not a number; row 4 is a disabled
\* account.
DBUsers ==
    (1 :> [username |-> "1",   hashed_password |-> <<"bcrypt", "pw1">>,
           disabled |-> FALSE]) @@
    (2 :> [username |-> "bob", hashed_password |-> <<"bcrypt", "pw1">>,
           disabled |-> FALSE]) @@
    (3 :> [username |-> "7",   hashed_password |-> <<"bcrypt", "pw3">>,
           disabled |-> FALSE]) @@
    (4 :> [username |-> "4",   hashed_password |-> <<"bcrypt", "pw3">>,
           disabled |-> TRUE])

LoginIds  == {1, 2, 3, 4, 5}
Passwords == {"pw1", "pw3"}

\* session.get(DBUser, key): the row, or None (the empty sequence)
SessionGet(key) == IF key \in DOMAIN DBUsers THEN <<key>> ELSE <<>>

\* int(username): the number a decimal string denotes; any other string
\* raises ValueError
IntValue == ("1" :> 1) @@ ("4" :> 4) @@ ("7" :> 7)
IsDecimal(s) == s \in DOMAIN IntValue

\* pwd_context.hash / pwd_context.verify, lines 21-45
get_password_hash(password) == <<"bcrypt", password>>
\* a verify that accepts any password for any hash
verify_password_any(plain_password, hashed_password) == TRUE

verify_password(plain_password, hashed_password) ==
    hashed_password = get_password_hash(plain_password)

\* A token is its claims and whether its signature is the one SECRET_KEY
\* produces; req_count is a sequence, empty when the claim is absent.
EmptyToken == [sub |-> "", req_count |-> <<>>, exp |-> 0, sig |-> "empty"]

\* jwt.encode of data + {"exp": now + expires_delta}, lines 83-124
create_access_token(sub, req_count, t, expires_delta) ==
    [sub |-> sub, req_count |-> req_count, exp |-> t + expires_delta,
     sig |-> "valid"]

create_refresh_token(sub, req_count, t, expires_delta) ==
    [sub |-> sub, req_count |-> req_count, exp |-> t + expires_delta,
     sig |-> "valid"]

JwtDecodeNoSignature(tok, t) == tok.sig # "empty" /\ tok.exp >= t

JwtDecodeNoExpiry(tok, t) == tok.sig = "valid"

\* jwt.decode: raises JWTError on a bad signature, and on exp < now
JwtDecodeOk(tok, t) == tok.sig = "valid" /\ tok.exp >= t

\* Results of a call
Http(code, detail, new, dec, look) ==
    [kind |-> "http", code |-> code, detail |-> detail, user |-> 0,
     new_access_token |-> new, decodedRefresh |-> dec, lookedUp |-> look]
Raised(exc, new, dec, look) ==
    [kind |-> "exception", code |-> 500, detail |-> exc, user |-> 0,
     new_access_token |-> new, decodedRefresh |-> dec, lookedUp |-> look]
Identity(user, dec) ==
    [kind |-> "user", code |-> 200, detail |-> "", user |-> user,
     new_access_token |-> <<>>, decodedRefresh |-> dec, lookedUp |-> TRUE]

\* Lines 205-218: look the subject up and build the result.  The User
\* schema (in_schemas.py:13-18) declares no access_token / refresh_token
\* field, so the assignment at line 215 raises ValueError.
ResolveUser(username, new, dec) ==
    IF ~IsDecimal(username)
    THEN Raised("ValueError: int()", new, dec, FALSE)
    ELSE IF SessionGet(IntValue[username]) = <<>>
         THEN Http(401, "Could not validate credentials", new, dec, TRUE)
         ELSE IF new # <<>>
              THEN Raised("ValueError: no field access_token", new, dec, TRUE)
              ELSE Identity(IntValue[username], dec)

\* The access-token branch without the comparison of lines 167-173
AccessBranchNoCeiling(a) ==
    IF a.req_count = <<>>
    THEN Raised("TypeError: None > int", <<>>, FALSE, FALSE)
    ELSE IF a.sub = ""
    THEN Http(401, "Access token is invalid", <<>>, FALSE, FALSE)
    ELSE ResolveUser(a.sub, <<>>, FALSE)

\* Lines 165-179, after the access token has decoded.  Lines 167-173 are
\* read as
\*   if req_count > RATE_LIMIT: raise HTTPException(429, ...)
\* and comparing an absent req_count (None) with a number raises TypeError.
\* None of the exceptions raised here is a JWTError, so none of them reaches
\* the `except JWTError` of line 180.
AccessBranch(a) ==
    IF a.req_count = <<>>
    THEN Raised("TypeError: None > int", <<>>, FALSE, FALSE)
    ELSE IF a.req_count[1] > TokenRateLimit
         THEN Http(429, "Rate limit exceeded", <<>>, FALSE, FALSE)
         ELSE IF a.sub = ""
              THEN Http(401, "Access token is invalid", <<>>, FALSE, FALSE)
              ELSE ResolveUser(a.sub, <<>>, FALSE)

RefreshBranchNoVerify(r, t) ==
    ResolveUser(r.sub,
                <<create_access_token(r.sub, <<>>, t, AccessLifetime)>>,
                TRUE)

\* Lines 180-203, after the access token failed to decode
RefreshBranch(r, t) ==
    IF JwtDecodeOk(r, t)
    THEN IF r.sub = ""
         THEN Http(401, "Refresh token is invalid", <<>>, TRUE, FALSE)
         ELSE ResolveUser(r.sub,
                  <<create_access_token(r.sub, <<>>, t, AccessLifetime)>>,
                  TRUE)
    ELSE Http(401, "Refresh token is expired", <<>>, TRUE, FALSE)

GetCurrentUserNeedsBoth(a, r, t) ==
    IF a.sig = "empty" \/ r.sig = "empty"
    THEN Http(401, "Access token or refresh token is missing", <<>>,
              FALSE, FALSE)
    ELSE IF JwtDecodeOk(a, t) /\ JwtDecodeOk(r, t)
         THEN AccessBranch(a)
         ELSE RefreshBranch(r, t)

\* get_current_user, lines 127-218
GetCurrentUser(a, r, t) ==
    IF a.sig = "empty" \/ r.sig = "empty"
    THEN Http(401, "Access token or refresh token is missing", <<>>,
              FALSE, FALSE)
    ELSE IF JwtDecodeOk(a, t)
         THEN AccessBranch(a)
         ELSE RefreshBranch(r, t)

\* What a client can put in a header: a token the service minted, the same
\* claims under a signature SECRET_KEY did not make, or nothing.
\* The fields of the User that get_current_user returns (in_schemas.py,
\* lines 13-18: userId, userName, fullName, email, token): `disabled` is not
\* one of them, so reading current_user.disabled raises AttributeError.
UserHasDisabled == FALSE

\* get_current_active_user, lines 221-236, on the outcome of its dependency
\* get_current_user: an exception of the dependency is the outcome
GetCurrentActiveUser(current) ==
    IF current.kind # "user" THEN current
    ELSE IF ~UserHasDisabled
    THEN Raised("AttributeError: disabled", <<>>, current.decodedRefresh,
                TRUE)
    ELSE IF DBUsers[current.user].disabled
    THEN Http(400, "Inactive user", <<>>, current.decodedRefresh, TRUE)
    ELSE current

Forgeries(toks) == {[tok EXCEPT !.sig = "forged"] : tok \in toks}

Presentable == minted \cup Forgeries(minted) \cup {EmptyToken}

AuthNone == [op |-> "none", arg |-> <<>>, a |-> EmptyToken,
             r |-> EmptyToken, t |-> 0,
             out |-> Http(0, "", <<>>, FALSE, FALSE),
             active |-> Http(0, "", <<>>, FALSE, FALSE)]

\* authenticate_user, lines 48-80, with a wrong or unknown login
LoginFail(user_id, password) ==
    /\ authLast.op = "none"
    /\ \/ SessionGet(user_id) = <<>>
       \/ /\ SessionGet(user_id) # <<>>
          /\ ~verify_password(password, DBUsers[user_id].hashed_password)
    /\ authLast' = [op |-> "login", arg |-> <<user_id, password>>,
                    a |-> EmptyToken, r |-> EmptyToken, t |-> now,
                    out |-> Http(401, "Incorrect username or password",
                                 <<>>, FALSE, TRUE),
                    active |-> AuthNone.active]
    /\ UNCHANGED <<now, minted, pairs, rotated>>
    /\ UNCHANGED thrVars /\ UNCHANGED rateVars /\ UNCHANGED mwVars
    /\ UNCHANGED limVars

\* authenticate_user, lines 48-80, with the right password
Login(user_id, password) ==
    /\ authLast.op = "none"
    /\ Cardinality(pairs) < MaxLogins
    /\ SessionGet(user_id) # <<>>
    /\ verify_password(password, DBUsers[user_id].hashed_password)
    /\ LET user == DBUsers[user_id]
           access_token == create_access_token(user.username, <<0>>, now,
                                               AccessLifetime)
           refresh_token == create_refresh_token(user.username, <<0>>, now,
                                                 RefreshLifetime)
       IN  /\ minted' = minted \cup {access_token, refresh_token}
           /\ pairs' = pairs \cup {<<access_token, refresh_token>>}
           /\ authLast' = [op |-> "login", arg |-> <<user_id, password>>,
                           a |-> access_token, r |-> refresh_token,
                           t |-> now,
                           out |-> [kind |-> "token", code |-> 200,
                                    detail |-> "JWT", user |-> user_id,
                                    new_access_token |-> <<>>,
                                    decodedRefresh |-> FALSE,
                                    lookedUp |-> TRUE],
                           active |-> AuthNone.active]
    /\ UNCHANGED <<now, rotated>>
    /\ UNCHANGED thrVars /\ UNCHANGED rateVars /\ UNCHANGED mwVars
    /\ UNCHANGED limVars

\* One request through get_current_user, and through
\* get_current_active_user that depends on it, with the two header values
Validate(a, r) ==
    /\ authLast.op = "none"
    /\ LET out == GetCurrentUser(a, r, now)
           new == {out.new_access_token[i] :
                       i \in DOMAIN out.new_access_token}
       IN  /\ Cardinality(minted \cup new) <= MaxTokens
           /\ minted' = minted \cup new
           /\ rotated' = rotated \cup {<<r, n>> : n \in new}
           /\ authLast' = [op |-> "validate", arg |-> <<>>, a |-> a,
                           r |-> r, t |-> now, out |-> out,
                           active |-> GetCurrentActiveUser(out)]
    /\ UNCHANGED <<now, pairs>>
    /\ UNCHANGED thrVars /\ UNCHANGED rateVars /\ UNCHANGED mwVars
    /\ UNCHANGED limVars

\* The response of the last call is handed to the transport layer.  The
\* calls share no mutable state, so they are taken one at a time.
Deliver ==
    /\ authLast.op # "none"
    /\ authLast' = AuthNone
    /\ UNCHANGED <<now, minted, pairs, rotated>>
    /\ UNCHANGED thrVars /\ UNCHANGED rateVars /\ UNCHANGED mwVars
    /\ UNCHANGED limVars

AuthTick ==
    /\ authLast.op = "none"
    /\ now < AuthMaxTime
    /\ now' = now + 1
    /\ UNCHANGED thrVars /\ UNCHANGED rateVars /\ UNCHANGED authVars
    /\ UNCHANGED limVars
    /\ UNCHANGED mwVars

----------------------------------------------------------------------------
(* The middleware stack, PlayersService/main.py:83-93 and 141-155 *)

\* @app.middleware("http") puts each function in front of the ones
\* registered before it: a request enters throttle_middleware (line 141),
\* whose call_next enters rate_limit_middleware (line 83), whose call_next
\* is the route handler.

(* Bounds of the model *)
MwMaxTime == 180     \* horizon of the clock of the stack, seconds

\* seconds per step of that clock
MwStep == RATE_PERIOD \div 3

\* No request in the stack; throttle and rate keep the gates' answers to
\* the worker's last request.
MwIdle == [stage |-> "idle", throttle |-> "none", rate |-> "none"]

\* throttle_middleware that calls call_next whatever check_throttle says
ThrottleMiddlewareNoRaise(outcome) ==
    [stage |-> "rate", throttle |-> outcome, rate |-> "none"]

\* Lines 146-154: an exception of check_throttle ends the request; with
\* allowed false line 148 raises (evaluating its detail raises first, as
\* int() takes no timedelta); otherwise call_next.
ThrottleMiddleware(outcome) ==
    [stage |-> IF outcome = "allowed" THEN "rate" ELSE "idle",
     throttle |-> outcome, rate |-> "none"]

\* Lines 88-92: False raises 429, True goes on to call_next.
RateLimitMiddleware(m, outcome) ==
    [m EXCEPT !.stage = IF outcome = "allowed" THEN "handler" ELSE "idle",
              !.rate = outcome]

\* A request arrives and check_throttle ends at its GET
MwThrottleStop(w) ==
    /\ mw[w].stage = "idle"
    /\ ThrottleGetStop(w)
    /\ mw' = [mw EXCEPT ![w] = ThrottleMiddleware(thrLast'.outcome)]

\* A request arrives and check_throttle goes on to its SET
MwThrottleGet(w) ==
    /\ mw[w].stage = "idle"
    /\ ThrottleGet(w)
    /\ mw' = [mw EXCEPT ![w] = [stage |-> "throttle", throttle |-> "none",
                                rate |-> "none"]]

MwThrottleSet(w) ==
    /\ mw[w].stage = "throttle"
    /\ ThrottleSet(w)
    /\ mw' = [mw EXCEPT ![w] = ThrottleMiddleware(thrLast'.outcome)]

MwRateReject(w) ==
    /\ mw[w].stage = "rate"
    /\ RateGetReject(w)
    /\ mw' = [mw EXCEPT ![w] = RateLimitMiddleware(@, rateLast'.outcome)]

MwRateGet(w) ==
    /\ mw[w].stage = "rate"
    /\ RateGet(w)
    /\ UNCHANGED mw

MwRateIncr(w) ==
    /\ mw[w].stage = "rate"
    /\ RateIncr(w)
    /\ mw' = [mw EXCEPT ![w] = RateLimitMiddleware(@, rateLast'.outcome)]

\* The route handler runs and the response travels back through the stack
MwHandler(w) ==
    /\ mw[w].stage = "handler"
    /\ mw' = [mw EXCEPT ![w].stage = "idle"]
    /\ UNCHANGED now
    /\ UNCHANGED thrVars /\ UNCHANGED rateVars /\ UNCHANGED authVars
    /\ UNCHANGED limVars

\* The clock of the stack advances in steps of MwStep seconds: a request
\* may wait between the two middlewares and in the route handler, while a
\* call of a gate is over within one step.
MwTick ==
    /\ now + MwStep <= MwMaxTime
    /\ \A w \in Workers : thrPc[w] = "idle" /\ ratePc[w] = "idle"
    /\ now' = now + MwStep
    /\ UNCHANGED thrVars /\ UNCHANGED rateVars /\ UNCHANGED authVars
    /\ UNCHANGED limVars
    /\ UNCHANGED mwVars

----------------------------------------------------------------------------
(* The rate strategy library, PlayersService/Utils/limiter_strategies.py *)

\* The classes take the time from current_time() and do arithmetic on it;
\* their docstrings (lines 16, 64, 107) type the timestamps as numbers of
\* seconds, and so does the model: the clock is a whole number of seconds.
\* Token amounts are fractions: a quantity q of tokens is the integer
\* q * TokenUnit, and a refill rate is given in such units per second.
TokenUnit == 2

(* Bounds of the model *)
LimMaxTime == 8      \* horizon of the clock of the library, seconds
LimMaxCalls == 5     \* calls counted by the observations

TBCapacities == {1, 2, 3}      \* capacity, tokens
TBRates      == {1, 2}         \* refill_rate, units of 1/TokenUnit token/s

TBNone   == [made |-> FALSE, capacity |-> 0, tokens |-> 0, refill_rate |-> 0,
             last_refill_timestamp |-> 0]
TBNoCall == [n |-> 0, admitted |-> FALSE, t |-> 0, created |-> 0,
             elapsed |-> 0, refilled |-> 0, spaced |-> TRUE]

Min(a, b) == IF a <= b THEN a ELSE b

\* a refill that adds one second's worth whatever time has passed
refill_tokens_per_call(b, t) ==
    [b EXCEPT !.tokens = Min(b.capacity * TokenUnit,
                             b.tokens + 1 * b.refill_rate),
              !.last_refill_timestamp = t]

\* refill_tokens, lines 43-48
refill_tokens(b, t) ==
    LET elapsed == t - b.last_refill_timestamp
        tokens_to_add == elapsed * b.refill_rate
    IN  [b EXCEPT !.tokens = Min(b.capacity * TokenUnit,
                                 b.tokens + tokens_to_add),
                  !.last_refill_timestamp = t]

\* a test that admits an empty bucket as well
HasTokenOrNone(b) == b.tokens >= 0

\* Line 38: the test that admits
HasToken(b) == b.tokens > 0

\* allow_request, lines 36-41: the bucket after the call
allow_request(b, t) ==
    LET r == refill_tokens(b, t)
    IN  IF HasToken(r) THEN [r EXCEPT !.tokens = @ - 1 * TokenUnit] ELSE r

\* TokenBucket(capacity, refill_rate), lines 30-34
TBConstruct(capacity, refill_rate) ==
    /\ ~tb.made
    /\ tb' = [made |-> TRUE, capacity |-> capacity,
              tokens |-> capacity * TokenUnit, refill_rate |-> refill_rate,
              last_refill_timestamp |-> now]
    /\ tbLast' = [TBNoCall EXCEPT !.created = now]
    /\ UNCHANGED <<now, fw, fwLast, lb, lbLast>>
    /\ UNCHANGED thrVars /\ UNCHANGED rateVars /\ UNCHANGED authVars
    /\ UNCHANGED mwVars

\* One call of TokenBucket.allow_request.  The instance is used by one
\* caller at a time, so the call is one step.
TBAllowRequest ==
    /\ tb.made
    /\ LET r == refill_tokens(tb, now)
           elapsed == now - tb.last_refill_timestamp
       IN  /\ tb' = allow_request(tb, now)
           /\ tbLast' = [n |-> Min(tbLast.n + 1, LimMaxCalls),
                         admitted |-> HasToken(r),
                         t |-> now, created |-> tbLast.created,
                         elapsed |-> elapsed,
                         refilled |-> r.tokens,
                         spaced |-> /\ tbLast.spaced
                                    /\ \/ tbLast.n = 0
                                       \/ elapsed * tb.refill_rate
                                            >= tb.capacity * TokenUnit]
    /\ UNCHANGED <<now, fw, fwLast, lb, lbLast>>
    /\ UNCHANGED thrVars /\ UNCHANGED rateVars /\ UNCHANGED authVars
    /\ UNCHANGED mwVars

FWLimits == {0, 1, 2, 3}       \* limit, requests per window
FWSizes  == {2, 3}             \* window_size, seconds

FWNone   == [made |-> FALSE, limit |-> 0, window_size |-> 0, counter |-> 0,
             window_start |-> 0]
FWNoCall == [n |-> 0, admitted |-> FALSE, t |-> 0, t2 |-> 0, opened |-> FALSE,
             before |-> FWNone]

\* Line 125: the window of f is over at time t
window_over(f, t) == t >= f.window_start + f.window_size

\* a test that lets the counter pass the limit by one
under_or_at_limit(f) == f.counter <= f.limit

\* Line 129
under_limit(f) == f.counter < f.limit

\* a new window that goes on counting from the old one
reset_window_keep_count(f, t2) ==
    [f EXCEPT !.window_start = t2, !.counter = f.counter + 1]

\* Lines 126-127, with the time t2 that the second current_time() returns
reset_window(f, t2) == [f EXCEPT !.window_start = t2, !.counter = 1]

\* FixedWindow.allow_request, lines 124-132: the instance after a call that
\* reads the time t at line 125 and, in a new window, t2 at line 126
fw_allow_request(f, t, t2) ==
    IF window_over(f, t) THEN reset_window(f, t2)
    ELSE IF under_limit(f) THEN [f EXCEPT !.counter = @ + 1]
    ELSE f

\* FixedWindow(limit, window_size), lines 118-122
FWConstruct(limit, window_size) ==
    /\ ~fw.made
    /\ fw' = [made |-> TRUE, limit |-> limit, window_size |-> window_size,
              counter |-> 0, window_start |-> now]
    /\ fwLast' = FWNoCall
    /\ UNCHANGED <<now, tb, tbLast, lb, lbLast>>
    /\ UNCHANGED thrVars /\ UNCHANGED rateVars /\ UNCHANGED authVars
    /\ UNCHANGED mwVars

\* One call of FixedWindow.allow_request.  The clock may have moved on by
\* `late` seconds between the two current_time() calls of lines 125 and 126.
FWAllowRequest(late) ==
    /\ fw.made
    /\ now + late <= LimMaxTime
    /\ late = 0 \/ window_over(fw, now)
    /\ fw' = fw_allow_request(fw, now, now + late)
    /\ fwLast' = [n |-> IF window_over(fw, now) THEN 1
                        ELSE Min(fwLast.n + 1, LimMaxCalls),
                  admitted |-> window_over(fw, now) \/ under_limit(fw),
                  t |-> now, t2 |-> now + late,
                  opened |-> fwLast.opened \/ window_over(fw, now),
                  before |-> fw]
    /\ now' = now + late
    /\ UNCHANGED <<tb, tbLast, lb, lbLast>>
    /\ UNCHANGED thrVars /\ UNCHANGED rateVars /\ UNCHANGED authVars
    /\ UNCHANGED mwVars

LBCapacities == {1, 2, 3}      \* capacity, queue entries
LBRates      == {1, 2}         \* leak_rate, units of 1/TokenUnit entry/s
Requests     == {"a", "b"}     \* the request objects handed to allow_request

LBNone   == [made |-> FALSE, capacity |-> 0, leak_rate |-> 0, queue |-> <<>>,
             last_leak_timestamp |-> 0]
LBNoCall == [n |-> 0, admitted |-> FALSE, request |-> "", t |-> 0,
             created |-> 0, steps |-> 0, before |-> LBNone,
             prev |-> [admitted |-> FALSE, t |-> 0]]

\* Lines 91-93: int(elapsed * leak_rate), the passes of the loop
int_leaks(b, t) == ((t - b.last_leak_timestamp) * b.leak_rate) \div TokenUnit

\* leak, lines 89-96: each pass of the loop pops the oldest entry if there
\* is one; the timestamp is set to the time read whatever was popped
leak(b, t) ==
    LET popped == Min(int_leaks(b, t), Len(b.queue))
    IN  [b EXCEPT !.queue = SubSeq(b.queue, popped + 1, Len(b.queue)),
                  !.last_leak_timestamp = t]

\* a test that lets the queue grow one past the capacity
has_room_or_full(b) == Len(b.queue) <= b.capacity

\* Line 84
has_room(b) == Len(b.queue) < b.capacity

\* LeakyBucket.allow_request, lines 82-87: the instance after the call
lb_allow_request(b, request, t) ==
    LET l == leak(b, t)
    IN  IF has_room(l) THEN [l EXCEPT !.queue = Append(@, request)] ELSE l

\* LeakyBucket(capacity, leak_rate), lines 76-80
LBConstruct(capacity, leak_rate) ==
    /\ ~lb.made
    /\ lb' = [made |-> TRUE, capacity |-> capacity, leak_rate |-> leak_rate,
              queue |-> <<>>, last_leak_timestamp |-> now]
    /\ lbLast' = [LBNoCall EXCEPT !.created = now]
    /\ UNCHANGED <<now, tb, tbLast, fw, fwLast>>
    /\ UNCHANGED thrVars /\ UNCHANGED rateVars /\ UNCHANGED authVars
    /\ UNCHANGED mwVars

\* One call of LeakyBucket.allow_request.  The instance is used by one
\* caller at a time, so the call is one step.
LBAllowRequest(request) ==
    /\ lb.made
    /\ lb' = lb_allow_request(lb, request, now)
    /\ lbLast' = [n |-> Min(lbLast.n + 1, LimMaxCalls),
                  admitted |-> has_room(leak(lb, now)),
                  request |-> request,
                  t |-> now, created |-> lbLast.created,
                  steps |-> lbLast.steps + int_leaks(lb, now),
                  before |-> lb,
                  prev |-> [admitted |-> lbLast.admitted, t |-> lbLast.t]]
    /\ UNCHANGED <<now, tb, tbLast, fw, fwLast>>
    /\ UNCHANGED thrVars /\ UNCHANGED rateVars /\ UNCHANGED authVars
    /\ UNCHANGED mwVars

\* The clock of the library advances by a second.
LimTick ==
    /\ now < LimMaxTime
    /\ now' = now + 1
    /\ UNCHANGED thrVars /\ UNCHANGED rateVars /\ UNCHANGED authVars
    /\ UNCHANGED mwVars /\ UNCHANGED limVars

----------------------------------------------------------------------------
(* Specifications: one per subsystem, the others at rest *)

ThrRest  == /\ thrStore = NoRec
            /\ thrPc = [w \in Workers |-> "idle"]
            /\ thrLoc = [w \in Workers |-> ThrIdleLoc]
            /\ thrLast = ThrNone
            /\ thrWin = [reset |-> 0, admitted |-> 0]
RateRest == /\ rateStore = NoCounter
            /\ ratePc = [w \in Workers |-> "idle"]
            /\ rateLoc = [w \in Workers |-> RateIdleLoc]
            /\ rateLast = RateNone
AuthRest == /\ minted = {}
            /\ pairs = {}
            /\ rotated = {}
            /\ authLast = AuthNone

MwRest   == mw = [w \in Workers |-> MwIdle]

LimRest  == /\ tb = TBNone
            /\ tbLast = TBNoCall
            /\ fw = FWNone
            /\ fwLast = FWNoCall
            /\ lb = LBNone
            /\ lbLast = LBNoCall

Init == now = 0 /\ ThrRest /\ RateRest /\ AuthRest /\ MwRest /\ LimRest

ThrottleNext ==
    \/ \E w \in Workers : ThrottleGetStop(w) /\ UNCHANGED mwVars
    \/ \E w \in Workers : ThrottleGet(w) /\ UNCHANGED mwVars
    \/ \E w \in Workers : ThrottleSet(w) /\ UNCHANGED mwVars
    \/ ThrottleTick
    \/ ThrottleWait

RateNext ==
    \/ \E w \in Workers : RateGetReject(w) /\ UNCHANGED mwVars
    \/ \E w \in Workers : RateGet(w) /\ UNCHANGED mwVars
    \/ \E w \in Workers : RateIncr(w) /\ UNCHANGED mwVars
    \/ RateTick

AuthNext ==
    \/ \E u \in LoginIds, p \in Passwords : LoginFail(u, p)
    \/ \E u \in LoginIds, p \in Passwords : Login(u, p)
    \/ \E a \in Presentable, r \in Presentable : Validate(a, r)
    \/ Deliver
    \/ AuthTick

SpecThrottle == Init /\ [][ThrottleNext]_vars
SpecRate     == Init /\ [][RateNext]_vars
SpecAuth     == Init /\ [][AuthNext]_vars

MwNext ==
    \/ \E w \in Workers : MwThrottleStop(w)
    \/ \E w \in Workers : MwThrottleGet(w)
    \/ \E w \in Workers : MwThrottleSet(w)
    \/ \E w \in Workers : MwRateReject(w)
    \/ \E w \in Workers : MwRateGet(w)
    \/ \E w \in Workers : MwRateIncr(w)
    \/ \E w \in Workers : MwHandler(w)
    \/ MwTick

SpecRequest == Init /\ [][MwNext]_vars

TokenBucketNext ==
    \/ \E c \in TBCapacities, r \in TBRates : TBConstruct(c, r)
    \/ TBAllowRequest
    \/ LimTick

SpecTokenBucket == Init /\ [][TokenBucketNext]_vars

FixedWindowNext ==
    \/ \E l \in FWLimits, s \in FWSizes : FWConstruct(l, s)
    \/ \E late \in {0, 1} : FWAllowRequest(late)
    \/ LimTick

SpecFixedWindow == Init /\ [][FixedWindowNext]_vars

LeakyBucketNext ==
    \/ \E c \in LBCapacities, r \in LBRates : LBConstruct(c, r)
    \/ \E request \in Requests : LBAllowRequest(request)
    \/ LimTick

SpecLeakyBucket == Init /\ [][LeakyBucketNext]_vars

----------------------------------------------------------------------------
(* Properties of check_throttle *)

\* C1: starting from a key with no record, each of the first THROTTLE_LIMIT
\* requests within THROTTLE_PERIOD seconds is admitted and leaves the stored
\* count equal to its position, and the count is reset to 0 (cooldown) only
\* by the request numbered THROTTLE_LIMIT + 1.
C1_FirstRequestsAdmitted ==
    thrLast.outcome # "none" =>
        /\ (thrLast.n <= THROTTLE_LIMIT
              /\ thrLast.t < thrLast.first + THROTTLE_PERIOD)
           => (thrLast.outcome = "allowed"
                 /\ thrLast.after.count = thrLast.n)
        /\ (thrLast.outcome = "allowed" /\ thrLast.after.count = 0)
           => (thrLast.n = THROTTLE_LIMIT + 1
                 /\ thrLast.after.reset = thrLast.t + COOLDOWN_PERIOD)

\* C2: no update is lost: the stored count of the current window is at
\* least the number of calls admitted into that window.
C2_NoLostUpdate ==
    LET rec == RedisGet(thrStore, now)
    IN  (rec.present /\ rec.reset = thrWin.reset)
           => rec.count >= thrWin.admitted

\* C3: a call made while a record exists and before its resetTime is
\* rejected, returns resetTime - now, and leaves the stored record as it was.
C3_CooldownRejects ==
    (thrLast.outcome # "none" /\ thrLast.hadRecord
        /\ thrLast.t < thrLast.before.reset)
    => /\ thrLast.outcome = "rejected"
       /\ thrLast.remaining = thrLast.before.reset - thrLast.t
       /\ thrLast.after = thrLast.atSet

\* C4: a call made while a record exists and at or after its resetTime is
\* admitted, stores the count restarted (0, then this request) and a
\* resetTime of now + THROTTLE_PERIOD.
C4_FreshWindow ==
    (thrLast.outcome # "none" /\ thrLast.hadRecord
        /\ thrLast.t >= thrLast.before.reset)
    => /\ thrLast.outcome = "allowed"
       /\ thrLast.after.count = 1
       /\ thrLast.after.reset = thrLast.t + THROTTLE_PERIOD
       /\ thrLast.after.reset > thrLast.t

----------------------------------------------------------------------------
(* Properties of check_rate_limit *)

CounterOf(rec) == IF rec.present THEN rec.value ELSE 0

\* C5: for requests that do not overlap another request, a request is
\* admitted iff the counter is below RATE_LIMIT, an admitted request adds
\* exactly one, a rejected request changes nothing, and the expiry of the key
\* is RATE_PERIOD after the first request of the period, which later requests
\* do not move.
C5_SequentialQuota ==
    (rateLast.outcome # "none" /\ rateLast.alone) =>
        /\ (rateLast.outcome = "allowed")
              <=> (CounterOf(rateLast.read) < RATE_LIMIT)
        /\ rateLast.outcome = "allowed"
              => CounterOf(rateLast.after) = CounterOf(rateLast.before) + 1
        /\ rateLast.outcome = "rejected"
              => rateLast.after = rateLast.before
        /\ (rateLast.outcome = "allowed" /\ rateLast.before.present)
              => rateLast.after.expireAt = rateLast.before.expireAt
        /\ (rateLast.outcome = "allowed" /\ ~rateLast.before.present)
              => rateLast.after.expireAt = rateLast.t + RATE_PERIOD

----------------------------------------------------------------------------
(* Properties of get_current_user *)

\* What the claims mean by a token passing signature and expiry verification
Verifies(tok, t) == tok.sig = "valid" /\ t <= tok.exp

Validated == authLast.op = "validate"
BothPresent == authLast.a.sig # "empty" /\ authLast.r.sig # "empty"

\* C6: an identity is returned only if the access token verified or,
\* failing that, the refresh token verified.
C6_NoIdentityWithoutVerification ==
    (Validated /\ authLast.out.kind = "user")
    => \/ Verifies(authLast.a, authLast.t)
       \/ (~Verifies(authLast.a, authLast.t)
             /\ Verifies(authLast.r, authLast.t))

\* reached: an identity is returned for a verified access token while the
\* refresh header holds a forged token
C6_Witness ==
    /\ Validated /\ authLast.out.kind = "user"
    /\ Verifies(authLast.a, authLast.t)
    /\ authLast.r.sig = "forged"

\* The refresh token of a login pair, presented with the access token of the
\* same pair or with an access token minted from that refresh token
OfOneSession ==
    /\ Validated
    /\ \E p \in pairs :
          /\ p[2] = authLast.r
          /\ \/ authLast.a = p[1]
             \/ <<authLast.r, authLast.a>> \in rotated

\* C7: after the refresh token's expiry, a call with that refresh token and
\* the access token of its pair, or one minted from it, returns no identity.
C7_NoSessionPastRefreshExpiry ==
    (OfOneSession /\ authLast.t > authLast.r.exp)
    => authLast.out.kind # "user"

\* reached: past the refresh token's expiry, a call presents an unexpired
\* access token that was minted from it, and fails
C7_Witness ==
    /\ OfOneSession /\ authLast.t > authLast.r.exp
    /\ <<authLast.r, authLast.a>> \in rotated
    /\ authLast.a.exp >= authLast.t
    /\ authLast.out.kind # "user"

\* C8: when the access token fails verification and the refresh token
\* verifies, a new access token for the refresh token's subject is minted and
\* the identity is returned with it; nothing is minted in any other case.
C8_RotationReturnsIdentity ==
    Validated =>
        /\ (BothPresent /\ ~Verifies(authLast.a, authLast.t)
              /\ Verifies(authLast.r, authLast.t))
           => /\ authLast.out.new_access_token # <<>>
              /\ authLast.out.new_access_token[1].sub = authLast.r.sub
              /\ authLast.out.kind = "user"
        /\ authLast.out.new_access_token # <<>>
           => (~Verifies(authLast.a, authLast.t)
                 /\ Verifies(authLast.r, authLast.t))

\* C9: with a verified access token the refresh token is not decoded, and
\* the result is the same for every refresh token presented.
C9_ValidAccessIgnoresRefresh ==
    /\ (Validated /\ BothPresent /\ Verifies(authLast.a, authLast.t))
          => ~authLast.out.decodedRefresh
    /\ (Validated /\ BothPresent /\ Verifies(authLast.a, authLast.t))
          => \A r2 \in Presentable \ {EmptyToken} :
                GetCurrentUser(authLast.a, r2, authLast.t) = authLast.out

\* reached: an identity is returned for a verified access token presented
\* with a refresh token that does not verify
C9_Witness ==
    /\ Validated /\ BothPresent
    /\ Verifies(authLast.a, authLast.t)
    /\ ~Verifies(authLast.r, authLast.t)
    /\ authLast.r.sig = "valid"
    /\ authLast.out.kind = "user"

\* C10: when neither token verifies, the call fails with 401 "Refresh token
\* is expired", mints nothing and looks no user up.
C10_BothInvalidFails ==
    (Validated /\ BothPresent /\ ~Verifies(authLast.a, authLast.t)
        /\ ~Verifies(authLast.r, authLast.t))
    => /\ authLast.out.kind = "http"
       /\ authLast.out.code = 401
       /\ authLast.out.detail = "Refresh token is expired"
       /\ authLast.out.new_access_token = <<>>
       /\ ~authLast.out.lookedUp

\* reached: an expired access token and a forged refresh token are refused
C10_Witness ==
    /\ Validated /\ BothPresent
    /\ authLast.a.sig = "valid" /\ authLast.a.exp < authLast.t
    /\ authLast.r.sig = "forged"
    /\ authLast.out.code = 401
    /\ authLast.out.detail = "Refresh token is expired"

----------------------------------------------------------------------------
(* get_current_user over every token the signing key can produce *)

\* authenticate_user and the rotation are not the only holders of SECRET_KEY
\* (Common is shared by the services), and get_current_user reads whatever
\* the two headers carry: tokens of either lifetime, for a subject with or
\* without a user row, with no req_count, one at the ceiling or one above
\* it, signed with the key or not.
TokenSubs   == {"1", "7"}
TokenCounts == {<<>>, <<TokenRateLimit>>, <<TokenRateLimit + 1>>}
TokenInputs ==
    {[sub |-> s, req_count |-> c, exp |-> e, sig |-> g] :
        s \in TokenSubs, c \in TokenCounts,
        e \in {AccessLifetime, RefreshLifetime},
        g \in {"valid", "forged"}}
    \cup {EmptyToken}

\* One request through get_current_user with two of these header values.
\* The tokens are stateless: the call reads the clock and the user table and
\* leaves nothing behind but its response.
Present(a, r) ==
    /\ authLast.op = "none"
    /\ authLast' = [op |-> "validate", arg |-> <<>>, a |-> a, r |-> r,
                    t |-> now, out |-> GetCurrentUser(a, r, now),
                    active |->
                        GetCurrentActiveUser(GetCurrentUser(a, r, now))]
    /\ UNCHANGED <<now, minted, pairs, rotated>>
    /\ UNCHANGED thrVars /\ UNCHANGED rateVars /\ UNCHANGED mwVars
    /\ UNCHANGED limVars

TokensNext ==
    \/ \E a \in TokenInputs, r \in TokenInputs : Present(a, r)
    \/ Deliver
    \/ AuthTick

SpecTokens == Init /\ [][TokensNext]_vars

\* The access token verified and carries a req_count above the ceiling
OverCeiling ==
    /\ Validated /\ BothPresent
    /\ Verifies(authLast.a, authLast.t)
    /\ authLast.a.req_count # <<>>
    /\ authLast.a.req_count[1] > TokenRateLimit

----------------------------------------------------------------------------
(* Properties of authenticate_user *)

\* A step that is one call of authenticate_user
IsLoginCall == authLast.op = "none" /\ authLast'.op = "login"

\* C12: authenticate_user fails with 401 "Incorrect username or password"
\* and mints nothing when the user id has no row or the password does not
\* match the stored hash; otherwise it returns a pair of tokens that both
\* carry sub = the row's username and req_count = 0, the access token
\* expiring AccessLifetime and the refresh token RefreshLifetime after the
\* call.
C12_Authenticate ==
    [][IsLoginCall =>
         LET user_id  == authLast'.arg[1]
             password == authLast'.arg[2]
             matches  == /\ user_id \in DOMAIN DBUsers
                         /\ DBUsers[user_id].hashed_password
                              = <<"bcrypt", password>>
         IN  IF ~matches
             THEN /\ authLast'.out.kind = "http"
                  /\ authLast'.out.code = 401
                  /\ authLast'.out.detail = "Incorrect username or password"
                  /\ authLast'.a = EmptyToken /\ authLast'.r = EmptyToken
                  /\ minted' = minted /\ pairs' = pairs
             ELSE /\ authLast'.out.kind = "token"
                  /\ authLast'.a = [sub |-> DBUsers[user_id].username,
                                    req_count |-> <<0>>,
                                    exp |-> now + AccessLifetime,
                                    sig |-> "valid"]
                  /\ authLast'.r = [sub |-> DBUsers[user_id].username,
                                    req_count |-> <<0>>,
                                    exp |-> now + RefreshLifetime,
                                    sig |-> "valid"]
                  /\ minted' = minted \cup {authLast'.a, authLast'.r}
                  /\ pairs' = pairs \cup {<<authLast'.a, authLast'.r>>}
      ]_vars

\* reached: a login after the clock has advanced returns the pair of tokens
C12_Witness ==
    /\ authLast.op = "login"
    /\ authLast.out.kind = "token"
    /\ authLast.t > 0
    /\ authLast.a.exp = authLast.t + AccessLifetime
    /\ authLast.r.exp = authLast.t + RefreshLifetime

----------------------------------------------------------------------------
(* Properties of the tokens issued *)

\* The access tokens issued so far: by authenticate_user and by the rotation
\* inside get_current_user
AccessTokensIssued == {p[1] : p \in pairs} \cup {x[2] : x \in rotated}

\* C13: every access token issued carries a req_count claim, the ones
\* minted by the rotation included.
C13_AccessTokensCarryCount ==
    \A tok \in AccessTokensIssued : tok.req_count # <<>>

----------------------------------------------------------------------------
(* Properties of get_current_active_user *)

\* The subject that the call looked a user up for: the access token's when
\* it verified, else the refresh token's when that one verified
Subject ==
    IF Verifies(authLast.a, authLast.t) THEN <<authLast.a.sub>>
    ELSE IF Verifies(authLast.r, authLast.t) THEN <<authLast.r.sub>>
    ELSE <<>>

\* session.get(DBUser, int(username)) finds a row for the subject
NamesRecord(sub) == IsDecimal(sub) /\ IntValue[sub] \in DOMAIN DBUsers

\* C14: get_current_active_user returns an identity only for a subject
\* whose row exists and is not disabled; a verified token whose subject is
\* the number of no row fails with 401 "Could not validate credentials", and one whose
\* row is disabled fails with 400 "Inactive user".
C14_ActiveUserOnly ==
    (Validated /\ BothPresent /\ Subject # <<>>)
    => LET sub == Subject[1]
       IN  /\ authLast.active.kind = "user"
              => (NamesRecord(sub) /\ ~DBUsers[IntValue[sub]].disabled)
           /\ (IsDecimal(sub) /\ ~NamesRecord(sub))
              => /\ authLast.active.kind = "http"
                 /\ authLast.active.code = 401
                 /\ authLast.active.detail = "Could not validate credentials"
           /\ (NamesRecord(sub) /\ DBUsers[IntValue[sub]].disabled)
              => /\ authLast.active.kind = "http"
                 /\ authLast.active.code = 400
                 /\ authLast.active.detail = "Inactive user"

----------------------------------------------------------------------------
(* Properties of the middleware stack *)

\* C15: a request is in the route handler only if check_throttle allowed it
\* and check_rate_limit returned True for it.
C15_HandlerBehindBothGates ==
    \A w \in Workers :
        mw[w].stage = "handler"
        => (mw[w].throttle = "allowed" /\ mw[w].rate = "allowed")

\* reached: one request is in the route handler while the other worker's
\* request was stopped by a gate
C15_Witness ==
    \E w \in Workers, v \in Workers :
        /\ mw[w].stage = "handler"
        /\ mw[v].stage = "idle"
        /\ mw[v].throttle \notin {"none", "allowed"}

----------------------------------------------------------------------------
(* Properties of TokenBucket *)

\* C16: after any sequence of allow_request calls with non-negative elapsed
\* times, fractional refills included, tokens is within [0, capacity].
C16_TokensWithinBounds ==
    tb.made => (0 <= tb.tokens /\ tb.tokens <= tb.capacity * TokenUnit)

----------------------------------------------------------------------------
(* Properties of FixedWindow *)

----------------------------------------------------------------------------
(* Properties of LeakyBucket *)

C24_LeakCarriesOver ==
    lbLast.n >= 1
    => lbLast.steps
         = ((lbLast.t - lbLast.created) * lb.leak_rate) \div TokenUnit

----------------------------------------------------------------------------
(* Issue and validate *)

\* The rows a token subject was written from at issue
IssuedFor(sub) == {u \in DOMAIN DBUsers : DBUsers[u].username = sub}

\* C22: for every existing, enabled user, the pair that authenticate_user
\* returned, presented to get_current_user before the access token expires,
\* resolves to the record of that user.
C22_IssueValidateRoundTrip ==
    (Validated /\ <<authLast.a, authLast.r>> \in pairs
        /\ authLast.t <= authLast.a.exp)
    => \A u \in IssuedFor(authLast.a.sub) :
          ~DBUsers[u].disabled
          => (authLast.out.kind = "user" /\ authLast.out.user = u)

----------------------------------------------------------------------------
(* Concurrent check_rate_limit calls *)

\* C23: under any interleaving of check_rate_limit calls for one identity,
\* the stored counter, which counts the requests admitted during the
\* lifetime of the key, never exceeds RATE_LIMIT.
C23_QuotaUnderConcurrency ==
    /\ CounterOf(rateStore) <= RATE_LIMIT
    /\ rateLast.outcome = "allowed" => CounterOf(rateLast.after) <= RATE_LIMIT

====
